---------------------------- MODULE Spec2Model ----------------------------
(***************************************************************************)
(* A model of the permalink codec and of the alias path resolver of        *)
(* tdoc-cli (src/src/markdown).                                             *)
(*                                                                         *)
(* Strings are sequences of one-character strings, so that substring,      *)
(* startsWith, indexOf, split and padStart are computed as the code        *)
(* computes them.  BigInt values are sequences of digits (most significant *)
(* first): YYYYMMDDHHMMSS does not fit the checker's machine integers.     *)
(***************************************************************************)
EXTENDS Integers, Sequences, FiniteSets, TLC

VARIABLES
    issued,     \* the PermalinkData returned by the calls of generatePermalink so far (with their inputs)
    parsed      \* the last call of parsePermalink: its input and its outcome


-----------------------------------------------------------------------------
(* Strings *)

\* String.prototype.substring(from, to) with 0-based from and exclusive to,
\* both clamped to the string as JavaScript clamps them.
Clamp(n, len) == IF n < 0 THEN 0 ELSE IF n > len THEN len ELSE n

Substring(s, from, to) ==
    LET a == Clamp(from, Len(s))
        b == Clamp(to, Len(s))
        lo == IF a < b THEN a ELSE b
        hi == IF a < b THEN b ELSE a
    IN  SubSeq(s, lo + 1, hi)

\* String.prototype.startsWith
StartsWith(s, p) == Len(s) >= Len(p) /\ SubSeq(s, 1, Len(p)) = p

RECURSIVE Repeat(_, _)
Repeat(c, n) == IF n <= 0 THEN <<>> ELSE <<c>> \o Repeat(c, n - 1)

\* String.prototype.padStart / padEnd with a one-character filler
PadStart(s, width, c) == Repeat(c, width - Len(s)) \o s
PadEnd(s, width, c) == s \o Repeat(c, width - Len(s))

-----------------------------------------------------------------------------
(* Numbers and their digits *)

HexChars == <<"0","1","2","3","4","5","6","7","8","9","a","b","c","d","e","f">>
DecChars == <<"0","1","2","3","4","5","6","7","8","9">>

IsHexChar(c) == \E i \in 1..16 : HexChars[i] = c
HexVal(c) == (CHOOSE i \in 1..16 : HexChars[i] = c) - 1
IsWhiteSpace(c) == c \in {" ", "\t", "\n", "\r"}

\* The digits of a machine-sized natural number in a base, most significant first.
RECURSIVE NatDigits(_, _)
NatDigits(n, base) ==
    IF n < base THEN <<n>> ELSE Append(NatDigits(n \div base, base), n % base)

RECURSIVE DigitsValue(_, _)
DigitsValue(ds, base) ==
    IF ds = <<>> THEN 0
    ELSE DigitsValue(SubSeq(ds, 1, Len(ds) - 1), base) * base + ds[Len(ds)]

\* One long division of a digit sequence (in base from) by a small divisor:
\* <<quotient digits, remainder>>.
RECURSIVE LongDiv(_, _, _, _, _, _)
LongDiv(ds, from, by, i, rem, q) ==
    IF i > Len(ds) THEN <<q, rem>>
    ELSE LET cur == rem * from + ds[i]
         IN  LongDiv(ds, from, by, i + 1, cur % by, Append(q, cur \div by))

RECURSIVE StripZeros(_)
StripZeros(ds) ==
    IF Len(ds) > 1 /\ ds[1] = 0 THEN StripZeros(Tail(ds)) ELSE ds

\* The digits in base to of the number whose digits in base from are ds.
RECURSIVE ConvertBase(_, _, _)
ConvertBase(ds, from, to) ==
    LET n == StripZeros(ds)
        qr == LongDiv(n, from, to, 1, 0, <<>>)
        q == StripZeros(qr[1])
    IN  IF q = <<0>> THEN <<qr[2]>>
        ELSE Append(ConvertBase(q, from, to), qr[2])

ToChars(ds, chars) == [i \in 1..Len(ds) |-> chars[ds[i] + 1]]
HexDigits(s) == [i \in 1..Len(s) |-> HexVal(s[i])]

\* String(n) and n.toString(16) of a non-negative number
NumberToString(n) == ToChars(NatDigits(n, 10), DecChars)
NumberToHex(n) == ToChars(NatDigits(n, 16), HexChars)

-----------------------------------------------------------------------------
(* Dates: the local calendar fields of a JavaScript Date *)

IsLeapYear(y) == (y % 4 = 0 /\ y % 100 # 0) \/ y % 400 = 0

\* m0 is a month index 0..11, as getMonth() gives it
DaysInMonth(y, m0) ==
    IF m0 = 1 THEN (IF IsLeapYear(y) THEN 29 ELSE 28)
    ELSE IF m0 \in {3, 5, 8, 10} THEN 30 ELSE 31

\* The day off days after the first of month m0 of year y (off may be negative).
RECURSIVE AddDays(_, _, _)
AddDays(y, m0, off) ==
    IF off < 0
    THEN LET py == IF m0 = 0 THEN y - 1 ELSE y
             pm == IF m0 = 0 THEN 11 ELSE m0 - 1
         IN  AddDays(py, pm, off + DaysInMonth(py, pm))
    ELSE IF off >= DaysInMonth(y, m0)
    THEN LET ny == IF m0 = 11 THEN y + 1 ELSE y
             nm == IF m0 = 11 THEN 0 ELSE m0 + 1
         IN  AddDays(ny, nm, off - DaysInMonth(y, m0))
    ELSE <<y, m0, off + 1>>

NaN == [nan |-> TRUE]
Num(n) == [nan |-> FALSE, v |-> n]
InvalidDate == [valid |-> FALSE]

\* new Date(year, monthIndex, day, hours, minutes, seconds, ms): fields out of
\* range carry into the next larger field; a NaN field gives an Invalid Date.
\* The fields are those the getters return (month as getMonth() does, 0..11).
MakeDate(year, monthIndex, day, hours, minutes, seconds, ms) ==
    IF ms.nan THEN InvalidDate
    ELSE LET s1 == seconds + (ms.v \div 1000)
             m1 == minutes + (s1 \div 60)
             h1 == hours + (m1 \div 60)
             fullYear == IF year \in 0..99 THEN 1900 + year ELSE year
             ymd == AddDays(fullYear + (monthIndex \div 12), monthIndex % 12,
                            (day - 1) + (h1 \div 24))
         IN  [valid |-> TRUE, year |-> ymd[1], month |-> ymd[2], day |-> ymd[3],
              hours |-> h1 % 24, minutes |-> m1 % 60, seconds |-> s1 % 60,
              ms |-> ms.v % 1000]

-----------------------------------------------------------------------------
(* generatePermalink *)

PERMALINK_PREFIX == <<"d","o","c","s">>
IdLength == 24
MillisWidth == 3

\* A TimePoint is what generatePermalink reads of its Date: year, month (1..12),
\* day, hours, minutes, seconds, ms.
Pad2(n) == PadStart(NumberToString(n), 2, "0")

TimestampStr(date) ==
    NumberToString(date.year) \o Pad2(date.month) \o Pad2(date.day)
        \o Pad2(date.hours) \o Pad2(date.minutes) \o Pad2(date.seconds)

UpperHexChars == <<"0","1","2","3","4","5","6","7","8","9","A","B","C","D","E","F">>

\* (mutant) the timestamp in upper-case hex
TimestampHexUpper(date) ==
    LET timestampStr == TimestampStr(date)
        timestampBigInt == [i \in 1..Len(timestampStr) |->
                               (CHOOSE d \in 1..10 : DecChars[d] = timestampStr[i]) - 1]
    IN  ToChars(ConvertBase(timestampBigInt, 10, 16), UpperHexChars)

\* BigInt(timestampStr).toString(16)
TimestampHex(date) ==
    LET timestampStr == TimestampStr(date)
        timestampBigInt == [i \in 1..Len(timestampStr) |->
                               (CHOOSE d \in 1..10 : DecChars[d] = timestampStr[i]) - 1]
    IN  ToChars(ConvertBase(timestampBigInt, 10, 16), HexChars)

\* (mutant) the milliseconds in hex without the zero padding
MillisHexUnpadded(date) == NumberToHex(date.ms)

MillisHex(date) == PadStart(NumberToHex(date.ms), MillisWidth, "0")

\* (mutant) one entropy character too few
UsedUuidShort(fulluuid, remainingLength) == Substring(fulluuid, 0, remainingLength - 1)

\* fulluuid.substring(0, remainingLength)
UsedUuid(fulluuid, remainingLength) == Substring(fulluuid, 0, remainingLength)

generatePermalink(date, usePrefix, fulluuid) ==
    LET timestampHex0 == TimestampHex(date)
        millisHex == MillisHex(date)
        usedLength == Len(timestampHex0) + Len(millisHex)
        remainingLength == IdLength - usedLength
        timestampHex ==
            IF remainingLength < 0
            THEN Substring(timestampHex0, 0, Len(timestampHex0) + remainingLength)
            ELSE timestampHex0
        finalLength == Len(timestampHex) + Len(millisHex)
        useduuid ==
            IF remainingLength < 0
            THEN UsedUuid(fulluuid, IdLength - finalLength)
            ELSE UsedUuid(fulluuid, remainingLength)
        permalink ==
            IF remainingLength < 0
            THEN timestampHex \o millisHex \o useduuid
            ELSE Substring(PadEnd(timestampHex \o millisHex \o useduuid, IdLength, "0"),
                           0, IdLength)
        finalPermalink ==
            IF usePrefix THEN <<"/">> \o PERMALINK_PREFIX \o <<"/">> \o permalink
            ELSE <<"/">> \o permalink
    IN  [permalink |-> finalPermalink, fulluuid |-> fulluuid, useduuid |-> useduuid]

-----------------------------------------------------------------------------
(* parsePermalink *)

ParsedIdLength == 24
MaxTimestampLength == 12
MinTimestampLength == 8
TimestampDecLength == 14

\* BigInt("0x" + s): the digits, or a SyntaxError.  The string may end in white
\* space, which StringToBigInt trims; any other character that is no hex digit
\* is a SyntaxError.
RECURSIVE TrimEnd(_)
TrimEnd(s) ==
    IF s # <<>> /\ IsWhiteSpace(s[Len(s)]) THEN TrimEnd(SubSeq(s, 1, Len(s) - 1)) ELSE s

BigIntOfHex(s) ==
    LET t == TrimEnd(s)
    IN  IF t # <<>> /\ \A i \in 1..Len(t) : IsHexChar(t[i])
        THEN [ok |-> TRUE, digits |-> HexDigits(t)]
        ELSE [ok |-> FALSE]

\* parseInt(s) of a string of decimal digits
ParseIntDec(s) ==
    DigitsValue([i \in 1..Len(s) |-> (CHOOSE d \in 1..10 : DecChars[d] = s[i]) - 1], 10)

\* parseInt(s, 16): leading white space is skipped, then the longest run of hex
\* digits is read; NaN when there is none.
RECURSIVE TrimStart(_)
TrimStart(s) == IF s # <<>> /\ IsWhiteSpace(s[1]) THEN TrimStart(Tail(s)) ELSE s

RECURSIVE HexRun(_)
HexRun(s) == IF s # <<>> /\ IsHexChar(s[1]) THEN <<s[1]>> \o HexRun(Tail(s)) ELSE <<>>

ParseIntHex(s) ==
    LET run == HexRun(TrimStart(s))
    IN  IF run = <<>> THEN NaN ELSE Num(DigitsValue(HexDigits(run), 16))

\* The slash stripping of scripts/parse_permalink.js, which knows no prefix
StripSlash(permalink) ==
    IF StartsWith(permalink, <<"/">>) THEN Substring(permalink, 1, Len(permalink))
    ELSE permalink

\* The two strippings in the other order: a prefix behind a slash is not seen
StripPermalinkPrefixFirst(permalink) ==
    LET noPrefix == IF StartsWith(permalink, PERMALINK_PREFIX \o <<"/">>)
                    THEN Substring(permalink, Len(PERMALINK_PREFIX) + 1, Len(permalink))
                    ELSE permalink
    IN  IF StartsWith(noPrefix, <<"/">>) THEN Substring(noPrefix, 1, Len(noPrefix))
        ELSE noPrefix

\* The slash and prefix stripping of cmd_parse_md.ts
StripPermalink(permalink) ==
    LET noSlash == IF StartsWith(permalink, <<"/">>)
                   THEN Substring(permalink, 1, Len(permalink)) ELSE permalink
    IN  IF StartsWith(noSlash, PERMALINK_PREFIX \o <<"/">>)
        THEN Substring(noSlash, Len(PERMALINK_PREFIX) + 1, Len(noSlash))
        ELSE noSlash

NoDate == [found |-> FALSE]

\* The for loop over timestampLength; a SyntaxError of BigInt is caught and the
\* next length is tried.
RECURSIVE TryTimestampLengths(_, _)
TryTimestampLengths(hexStr, timestampLength) ==
    IF timestampLength < MinTimestampLength THEN NoDate
    ELSE LET timestampHex == Substring(hexStr, 0, timestampLength)
             big == BigIntOfHex(timestampHex)
             next == TryTimestampLengths(hexStr, timestampLength - 1)
         IN  IF ~big.ok THEN next
             ELSE LET timestampDec == ToChars(ConvertBase(big.digits, 16, 10), DecChars)
                  IN  IF Len(timestampDec) # TimestampDecLength THEN next
                      ELSE LET year == ParseIntDec(Substring(timestampDec, 0, 4))
                               month == ParseIntDec(Substring(timestampDec, 4, 6))
                               day == ParseIntDec(Substring(timestampDec, 6, 8))
                               hours == ParseIntDec(Substring(timestampDec, 8, 10))
                               minutes == ParseIntDec(Substring(timestampDec, 10, 12))
                               seconds == ParseIntDec(Substring(timestampDec, 12, 14))
                               tempDate == MakeDate(year, month - 1, day, hours, minutes,
                                                    seconds, Num(0))
                           IN  IF tempDate.year = year /\ tempDate.month = month - 1
                                  /\ tempDate.day = day
                               THEN LET millisHex == Substring(hexStr, timestampLength,
                                                               timestampLength + 3)
                                        milliseconds == ParseIntHex(millisHex)
                                    IN  [found |-> TRUE,
                                         timestampLength |-> timestampLength,
                                         timestamp |-> timestampDec,
                                         dateObj |-> MakeDate(year, month - 1, day, hours,
                                                              minutes, seconds, milliseconds)]
                               ELSE next

\* The outcome of parsePermalink: the ParsedPermalink it returns, or what it throws.
LengthError == [kind |-> "Error", message |-> "length"]
TimestampError == [kind |-> "Error", message |-> "timestamp"]
RangeError == [kind |-> "RangeError", message |-> "Invalid time value"]

\* (mutant) a length check that lets longer strings through
LengthOkAtLeast(hexStr) == Len(hexStr) >= ParsedIdLength

\* hexStr.length !== 24 throws
LengthOk(hexStr) == Len(hexStr) = ParsedIdLength

\* What both parsePermalink functions do once the string is stripped
ParseHexStr(permalink, hexStr) ==
    IF ~LengthOk(hexStr) THEN LengthError
    ELSE LET r == TryTimestampLengths(hexStr, MaxTimestampLength)
         IN  IF ~r.found THEN TimestampError
             ELSE IF ~r.dateObj.valid THEN RangeError   \* dateObj.toISOString() throws
             ELSE [kind |-> "ok",
                   originalPermalink |-> permalink,
                   timestamp |-> r.timestamp,
                   timestampLength |-> r.timestampLength,
                   year |-> r.dateObj.year,
                   month |-> r.dateObj.month + 1,
                   day |-> r.dateObj.day,
                   hours |-> r.dateObj.hours,
                   minutes |-> r.dateObj.minutes,
                   seconds |-> r.dateObj.seconds,
                   milliseconds |-> r.dateObj.ms]

\* parsePermalink of cmd_parse_md.ts (tdoc m:p)
parsePermalink(permalink) == ParseHexStr(permalink, StripPermalink(permalink))

\* parsePermalink of scripts/parse_permalink.js
parsePermalinkScript(permalink) == ParseHexStr(permalink, StripSlash(permalink))

-----------------------------------------------------------------------------
(* The codec's inputs *)

NumYears == 8
NumEntropy == 3
NumPairYears == 4

\* Years on both sides of 16^11 = 17592186044416 (an 11-digit hex timestamp up to
\* year 1759, a 12-digit one from 1760), and years with fewer or more than four digits.
YearList == <<1000, 1759, 1760, 2025, 9999, 999, 10000, 275760, 2024, 5>>
PairYearList == <<1759, 1760, 2025, 1000, 9999>>

DayList == <<[month |-> 1, day |-> 1, hours |-> 0, minutes |-> 0, seconds |-> 0],
             [month |-> 9, day |-> 2, hours |-> 17, minutes |-> 30, seconds |-> 45],
             [month |-> 2, day |-> 28, hours |-> 10, minutes |-> 59, seconds |-> 7],
             [month |-> 12, day |-> 31, hours |-> 23, minutes |-> 59, seconds |-> 59]>>
MillisList == <<0, 123, 999, 15, 256>>

\* randomUUID().replace(/-/g, ""): 32 lowercase hex digits
EntropyList ==
    <<<<"1","2","3","4","5","6","7","8","9","0","a","b","c","d","e","f","1","2","3","4","5","6","7","8","9","0","a","b","c","d","e","f">>,
      <<"1","2","3","4","5","6","7","8","9","f","a","b","c","d","e","f","1","2","3","4","5","6","7","8","9","0","a","b","c","d","e","f">>,
      <<"1","2","3","4","5","6","7","8","9","0","f","b","c","d","e","f","1","2","3","4","5","6","7","8","9","0","a","b","c","d","e","f">>,
      <<"e","6","f","b","3","e","6","b","1","4","c","0","4","1","7","7","a","2","c","5","a","0","7","0","6","0","c","7","a","c","f","a">>,
      <<"0","0","0","0","0","0","0","0","0","0","0","0","0","0","0","0","0","0","0","0","0","0","0","0","0","0","0","0","0","0","0","0">>,
      <<"f","f","f","f","f","f","f","f","f","f","f","f","f","f","f","f","f","f","f","f","f","f","f","f","f","f","f","f","f","f","f","f">>,
      <<"1","2","3","4","5","6","7","f","9","0","a","b","c","d","e","f","1","2","3","4","5","6","7","8","9","0","a","b","c","d","e","f">>>>

Min(a, b) == IF a < b THEN a ELSE b
Prefix(list, n) == {list[i] : i \in 1..Min(n, Len(list))}

Entropies == Prefix(EntropyList, NumEntropy)

DatesOf(years, days, millis) ==
    {[year |-> y, month |-> d.month, day |-> d.day, hours |-> d.hours,
      minutes |-> d.minutes, seconds |-> d.seconds, ms |-> ms] :
        y \in years, d \in days, ms \in millis}

TimePoints == DatesOf(Prefix(YearList, NumYears), Prefix(DayList, 3), Prefix(MillisList, 3))
PairTimePoints ==
    DatesOf(Prefix(PairYearList, NumPairYears), Prefix(DayList, 2), Prefix(MillisList, 3))

\* The payload of a permalink generatePermalink returned: what follows "/" and "docs/"
IdOf(data) == SubSeq(data.permalink, Len(data.permalink) - IdLength + 1, Len(data.permalink))

ReplaceAt(s, k, c) == [i \in 1..Len(s) |-> IF i = k THEN c ELSE s[i]]

\* What a user may hand to tdoc m:p for a document whose permalink was data: the
\* permalink as written, without its slash or prefix, damaged in one character,
\* too short or too long, or with an alias path in front.
NonHexChars == {"g", " "}
SpacePositions == {11, 12, 13, 15, 24}
AliasPathSample == <<"/","s","d","o","c","/","d","e","f","a","u","l","t">>

\* Identifiers written by hand: the digits YYYYMMDDHHMMSS with a field out of
\* range, in hexadecimal and filled up with zeros to the identifier's length
OverflowInputs ==
    LET stamps == {<<2,0,2,5,0,9,0,2,1,0,7,5,4,5>>,   \* minute 75
                   <<2,0,2,5,0,9,0,2,1,7,3,0,9,9>>,   \* second 99
                   <<2,0,2,5,0,9,0,2,2,3,5,9,6,0>>,   \* second 60 at 23:59
                   <<2,0,2,5,0,9,0,2,2,5,0,0,0,0>>,   \* hour 25
                   <<2,0,2,5,0,2,3,0,1,0,1,0,1,0>>,   \* 30 February
                   <<2,0,2,5,1,3,0,1,0,0,0,0,0,0>>}   \* month 13
        \* 2025-09-02 17:30:45 with the millisecond digits fff
        millis == <<2,0,2,5,0,9,0,2,1,7,3,0,4,5>>
    IN  {<<"/">> \o PadEnd(ToChars(ConvertBase(stamp, 10, 16), HexChars), IdLength, "0") :
            stamp \in stamps}
        \cup {<<"/">> \o PadEnd(ToChars(ConvertBase(millis, 10, 16), HexChars)
                                    \o <<"f","f","f">>, IdLength, "0")}

ParseInputs(data) ==
    LET id == IdOf(data)
    IN  {data.permalink, Tail(data.permalink), id, <<"/">> \o id,
         <<"/">> \o PERMALINK_PREFIX \o <<"/">> \o id}
        \cup {<<"/">> \o ReplaceAt(id, k, "g") : k \in 1..IdLength}
        \cup {<<"/">> \o ReplaceAt(id, k, " ") : k \in SpacePositions}
        \cup {<<>>, SubSeq(id, 1, IdLength - 1), id \o <<"0">>, <<"/", "/">> \o id,
              PERMALINK_PREFIX \o <<"/">> \o SubSeq(id, 1, IdLength - 5),
              AliasPathSample \o data.permalink}
        \cup OverflowInputs


-----------------------------------------------------------------------------
(* Paths and the file system *)

SDOC_DIR_NAME == <<"s","d","o","c">>
SRC_DIR_NAME == <<"s","r","c">>
PREDEFINED_EXCLUDE_DIRS == {<<".","v","i","t","e","p","r","e","s","s">>, <<"p","u","b","l","i","c">>}

\* A directory is the sequence of its segment names from the root; a name is a string.
W == <<"w">>
Foo == <<"f","o","o">>
Baz == <<"b","a","z">>
Ctor == <<"c","o","n","s","t","r","u","c","t","o","r">>

ProjectDir == <<W>>
SdocDir == <<W, SDOC_DIR_NAME>>

NumDirs == 3

\* The directories a user may create below the sdoc root
DirList == <<SdocDir \o <<Foo>>, SdocDir \o <<Foo, Baz>>, SdocDir \o <<Foo, SRC_DIR_NAME>>,
             SdocDir \o <<Baz>>>>
DirUniverse == Prefix(DirList, NumDirs)

\* A project that keeps its documents below src instead of sdoc
SrcDir == <<W, SRC_DIR_NAME>>
SrcDirUniverse == {SrcDir \o <<Foo>>, SrcDir \o <<Baz>>, SrcDir \o <<Baz, Foo>>}

\* readdirSync lists a directory's entries by name
ListingOrder == <<Baz, Ctor, Foo, SDOC_DIR_NAME, SRC_DIR_NAME, W>>

RECURSIVE Join(_, _)
Join(parts, sep) ==
    IF parts = <<>> THEN <<>>
    ELSE IF Len(parts) = 1 THEN parts[1]
    ELSE parts[1] \o <<sep>> \o Join(Tail(parts), sep)

\* The absolute path string of a directory, as path.resolve returns it
PathString(dir) == <<"/">> \o Join(dir, "/")

\* String.prototype.indexOf: the 0-based index of the first occurrence, or -1
IndexOf(s, pat) ==
    LET hits == {i \in 0..(Len(s) - Len(pat)) : SubSeq(s, i + 1, i + Len(pat)) = pat}
    IN  IF hits = {} THEN -1 ELSE CHOOSE i \in hits : \A j \in hits : i <= j

\* String.prototype.split with a one-character separator
RECURSIVE Split(_, _)
Split(s, sep) ==
    LET i == IndexOf(s, <<sep>>)
    IN  IF i = -1 THEN <<s>>
        ELSE <<SubSeq(s, 1, i)>> \o Split(SubSeq(s, i + 2, Len(s)), sep)

Basename(dir) == dir[Len(dir)]
Parent(dir) == SubSeq(dir, 1, Len(dir) - 1)
IsPrefixOf(a, b) == Len(a) <= Len(b) /\ SubSeq(b, 1, Len(a)) = a

\* A file: the path string of its directory, and its name
File(dirString, base) == [dir |-> dirString, base |-> base]
PathMapJs == "path-map.js"
EndsWithJs(file) == file.base \in {"path-map.js", "alias.js"}

VARIABLES
    dirs,       \* the directories that exist
    mdFiles,    \* the .md files that exist: [dir, name] for dir/name.md
    files,      \* the map files that exist and their content
    userAlias,  \* per map file and directory name, the alias the user last wrote by hand
    mm,         \* the outcome of tdoc m:m, when the last step was a run of it
    resolved,   \* the outcome of processPathWithMap, when the last step was a call of it
    scaffolds,  \* the text of scaffolds/post.md and scaffolds/index.md
    mdName,     \* the markdown file tdoc m:a is applied to: its name without .md
    mdText,     \* the content of that file
    maLog,      \* the runs of tdoc m:a on that file, oldest first
    runs,       \* the tdoc m:m processes under way, each at a point of main
    unreadable, \* the directories readdirSync fails on
    fileLog     \* what was written to the map files, oldest first, and by whom

fsVars == <<dirs, mdFiles, files, userAlias, mm, resolved>>
maVars == <<scaffolds, mdName, mdText, maLog>>
runVars == <<runs, unreadable, fileLog>>
vars == <<issued, parsed, dirs, mdFiles, files, userAlias, mm, resolved,
          scaffolds, mdName, mdText, maLog, runs, unreadable, fileLog>>

-----------------------------------------------------------------------------
(* path-map.js as text *)

\* The text of a map file is kept as the pieces between its double quotes:
\* <<p0, p1, p2, ...>> stands for p0 " p1 " p2 " ...  A piece is a sequence of
\* strings without a double quote; names and aliases are spelled character by
\* character.
\* The header comment (its text, which has no double quote, is abbreviated) and
\* the opening of the literal
HeaderText == <<"/** generated by tdoc m:m */\n\n", "export default {\n">>
Indent == <<" ", " ">>
KeyValueSep == <<":", " ">>
CommentStart == <<",", " ", "/", "/", " ">>
Trailer == <<"}", ";", "\n">>
DefaultAlias == <<"d","e","f","a","u","l","t">>

\* An ordered Map: a sequence of <<key, value>> in insertion order; set() on a
\* key that is present replaces its value in place.
EmptyMap == <<>>
MapHas(m, k) == \E i \in 1..Len(m) : m[i][1] = k
MapGet(m, k) == m[CHOOSE i \in 1..Len(m) : m[i][1] = k][2]
\* A map in which a key that is present keeps its value
MapSetKeepFirst(m, k, v) == IF MapHas(m, k) THEN m ELSE Append(m, <<k, v>>)

MapSet(m, k, v) ==
    IF MapHas(m, k) THEN [i \in 1..Len(m) |-> IF m[i][1] = k THEN <<k, v>> ELSE m[i]]
    ELSE Append(m, <<k, v>>)
MapKeys(m) == {m[i][1] : i \in 1..Len(m)}

\* The content generatePathMap writes: content += `  "${name}": "${value}", // ${relativePath}\n`
RECURSIVE EntryPieces(_, _, _)
EntryPieces(dirMap, existingMap, i) ==
    IF i > Len(dirMap) THEN <<>>
    ELSE LET name == dirMap[i][1]
             relativePath == dirMap[i][2]
             value == IF MapHas(existingMap, name) THEN MapGet(existingMap, name)
                      ELSE DefaultAlias
             rest == IF i = Len(dirMap) THEN Trailer ELSE Indent
         IN  <<name, KeyValueSep, value, CommentStart \o relativePath \o <<"\n">> \o rest>>
                 \o EntryPieces(dirMap, existingMap, i + 1)

\* A file that also keeps the entries of the file before that the scan did not find
MapFileContentKeepingOld(dirMap, existingMap) ==
    LET kept == SelectSeq(existingMap, LAMBDA entry : ~MapHas(dirMap, entry[1]))
        all == dirMap \o kept
    IN  IF all = <<>> THEN <<HeaderText \o Trailer>>
        ELSE <<HeaderText \o Indent>> \o EntryPieces(all, existingMap, 1)

MapFileContent(dirMap, existingMap) ==
    IF dirMap = <<>> THEN <<HeaderText \o Trailer>>
    ELSE <<HeaderText \o Indent>> \o EntryPieces(dirMap, existingMap, 1)

\* /"([^"]+)":\s*"([^"]+)"/g over the pieces: a match opens at the quote before
\* piece i when piece i is not empty, piece i + 1 is a colon followed by white
\* space only, piece i + 2 is not empty and a quote closes it; the search goes on
\* after that quote, or at the next quote when there is no match.
IsColonSpace(piece) ==
    /\ piece # <<>>
    /\ piece[1] = ":"
    /\ \A k \in 2..Len(piece) : piece[k] \in {" ", "\n", "\t"}

RECURSIVE RegexEntries(_, _, _)
RegexEntries(content, i, existingMap) ==
    IF i + 3 > Len(content) THEN existingMap
    ELSE IF content[i] # <<>> /\ IsColonSpace(content[i + 1]) /\ content[i + 2] # <<>>
    THEN RegexEntries(content, i + 4, MapSet(existingMap, content[i], content[i + 2]))
    ELSE RegexEntries(content, i + 1, existingMap)

\* readExistingMap
readExistingMap(filePath) ==
    IF filePath \notin DOMAIN files THEN EmptyMap
    ELSE RegexEntries(files[filePath], 2, EmptyMap)

\* require(pathMapPath).default: the object the literal evaluates to, its own
\* properties in the order written
RECURSIVE LiteralEntries(_, _)
LiteralEntries(content, i) ==
    IF i + 2 > Len(content) THEN EmptyMap
    ELSE <<<<content[i], content[i + 2]>>>> \o LiteralEntries(content, i + 4)

RequireDefault(filePath) == LiteralEntries(files[filePath], 2)

-----------------------------------------------------------------------------
(* tdoc m:m *)

\* findSdocRoot: the path up to and including the first segment named sdoc
findSdocRoot(dirPath) ==
    LET hits == {i \in 1..Len(dirPath) : dirPath[i] = SDOC_DIR_NAME}
    IN  IF hits = {} THEN <<>>
        ELSE SubSeq(dirPath, 1, CHOOSE i \in hits : \A j \in hits : i <= j)

\* readdirSync(dirPath), the directories among the entries
RECURSIVE Listing(_, _)
Listing(dirPath, i) ==
    IF i > Len(ListingOrder) THEN <<>>
    ELSE (IF Append(dirPath, ListingOrder[i]) \in dirs THEN <<ListingOrder[i]>> ELSE <<>>)
             \o Listing(dirPath, i + 1)

RECURSIVE MergeInto(_, _, _)
MergeInto(dirMap, subMap, i) ==
    IF i > Len(subMap) THEN dirMap
    ELSE MergeInto(MapSet(dirMap, subMap[i][1], subMap[i][2]), subMap, i + 1)

\* path.relative(basePath, fullPath) for a fullPath below basePath
RelativePath(basePath, fullPath) ==
    Join(SubSeq(fullPath, Len(basePath) + 1, Len(fullPath)), "/")

RECURSIVE scanDirectories(_, _, _)
RECURSIVE ScanEntries(_, _, _, _, _, _)
\* A scan that does not look for the document beside a directory
ScanEntriesWithAssetDirs(entries, i, dirPath, basePath, excludeDirs, dirMap) ==
    IF i > Len(entries) THEN dirMap
    ELSE LET name == entries[i]
             fullPath == Append(dirPath, name)
         IN  IF name \in excludeDirs
             THEN ScanEntries(entries, i + 1, dirPath, basePath, excludeDirs, dirMap)
             ELSE ScanEntries(entries, i + 1, dirPath, basePath, excludeDirs,
                      MergeInto(MapSet(dirMap, name, RelativePath(basePath, fullPath)),
                                scanDirectories(fullPath, basePath, excludeDirs), 1))

ScanEntries(entries, i, dirPath, basePath, excludeDirs, dirMap) ==
    IF i > Len(entries) THEN dirMap
    ELSE LET name == entries[i]
             fullPath == Append(dirPath, name)
         IN  IF name \in excludeDirs
             THEN ScanEntries(entries, i + 1, dirPath, basePath, excludeDirs, dirMap)
             ELSE IF [dir |-> dirPath, name |-> name] \in mdFiles
             THEN ScanEntries(entries, i + 1, dirPath, basePath, excludeDirs, dirMap)
             ELSE ScanEntries(entries, i + 1, dirPath, basePath, excludeDirs,
                      MergeInto(MapSet(dirMap, name, RelativePath(basePath, fullPath)),
                                scanDirectories(fullPath, basePath, excludeDirs), 1))

scanDirectories(dirPath, basePath, excludeDirs) ==
    ScanEntries(Listing(dirPath, 1), 1, dirPath, basePath, excludeDirs, EmptyMap)

\* generatePathMap: what it writes, and where
generatePathMap(dirPath, excludeDirs) ==
    LET dirMap == scanDirectories(dirPath, dirPath, excludeDirs)
        outputPath == File(PathString(dirPath), PathMapJs)
        existingMap == readExistingMap(outputPath)
    IN  [dirMap |-> dirMap, outputPath |-> outputPath, existingMap |-> existingMap,
         content |-> MapFileContent(dirMap, existingMap)]

\* The directories scanDirectories calls readdirSync on
RECURSIVE ReadDirs(_, _)
ReadDirs(dirPath, excludeDirs) ==
    LET entries == Listing(dirPath, 1)
        entered == {i \in 1..Len(entries) :
                       /\ entries[i] \notin excludeDirs
                       /\ [dir |-> dirPath, name |-> entries[i]] \notin mdFiles}
    IN  {dirPath} \cup UNION {ReadDirs(Append(dirPath, entries[i]), excludeDirs) : i \in entered}

\* A scan that takes a directory it cannot read for an empty one
ScanOutcomeIgnoringErrors(dirPath, excludeDirs) ==
    [ok |-> TRUE, dirMap |-> scanDirectories(dirPath, dirPath, excludeDirs)]

\* scanDirectories(dirPath, dirPath, excludeDirs) where readdirSync may throw:
\* the map, or the exception that leaves generatePathMap and is caught in main
ScanOutcome(dirPath, excludeDirs) ==
    IF ReadDirs(dirPath, excludeDirs) \cap unreadable # {} THEN [ok |-> FALSE]
    ELSE [ok |-> TRUE, dirMap |-> scanDirectories(dirPath, dirPath, excludeDirs)]

\* A write that merges with what the file holds now
WrittenContentRereading(run) ==
    MapFileContent(run.dirMap, readExistingMap(run.outputPath))

\* generatePathMap: the content it builds from the scan and from the map it read
WrittenContent(run) == MapFileContent(run.dirMap, run.existingMap)

\* A root search that also accepts a subdirectory named sdoc, as it does one named src
RootPathWithSdocChild(scanPath, given) ==
    LET basename == Basename(scanPath)
        found == IF given /\ basename \in {SDOC_DIR_NAME, SRC_DIR_NAME}
                 THEN scanPath ELSE findSdocRoot(scanPath)
    IN  IF found # <<>> THEN found
        ELSE IF Append(scanPath, SDOC_DIR_NAME) \in dirs THEN Append(scanPath, SDOC_DIR_NAME)
        ELSE IF Append(scanPath, SRC_DIR_NAME) \in dirs THEN Append(scanPath, SRC_DIR_NAME)
        ELSE <<>>

\* main: the root directory it settles on, <<>> when there is none.
\* given: options.dir or inputPath was passed, so scanPath is not the working directory
RootPath(scanPath, given) ==
    LET basename == Basename(scanPath)
        explicitRoot == IF given /\ basename \in {SDOC_DIR_NAME, SRC_DIR_NAME}
                        THEN scanPath ELSE <<>>
        found == IF explicitRoot # <<>> THEN explicitRoot ELSE findSdocRoot(scanPath)
        byName == IF found = <<>> /\ basename = SDOC_DIR_NAME THEN scanPath ELSE found
        srcPath == Append(scanPath, SRC_DIR_NAME)
    IN  IF byName # <<>> THEN byName
        ELSE IF srcPath \in dirs THEN srcPath
        ELSE <<>>

NoRun == [exit |-> -1]

\* main(inputPath, options)
main(scanPath, given, exclude) ==
    IF scanPath \notin dirs
    THEN /\ mm' = [exit |-> 1, scanPath |-> scanPath, error |-> "path does not exist"]
         /\ UNCHANGED files
    ELSE IF RootPath(scanPath, given) = <<>>
    THEN /\ mm' = [exit |-> 1, scanPath |-> scanPath, error |-> "no sdoc or src directory"]
         /\ UNCHANGED files
    ELSE LET rootPath == RootPath(scanPath, given)
             excludeDirs == PREDEFINED_EXCLUDE_DIRS \cup exclude
             written == generatePathMap(rootPath, excludeDirs)
         IN  /\ files' = [f \in DOMAIN files \cup {written.outputPath} |->
                             IF f = written.outputPath THEN written.content ELSE files[f]]
             /\ mm' = [exit |-> 0, scanPath |-> scanPath, rootPath |-> rootPath,
                       dirMap |-> written.dirMap, existingMap |-> written.existingMap,
                       outputPath |-> written.outputPath, excludeDirs |-> excludeDirs]

-----------------------------------------------------------------------------
(* processPathWithMap *)

\* What a property read finds on Object.prototype when the object has no own
\* property of that name, as join() stringifies it
ObjectFunctionText == <<"f","u","n","c","t","i","o","n"," ","O","b","j","e","c","t","(",")",
                        " ","{"," ","[","n","a","t","i","v","e"," ","c","o","d","e","]"," ","}">>
InheritsFromObjectPrototype(part) == part = Ctor

\* pathMap[part]: the own property, else the inherited one, else undefined (<<>>);
\* an empty string is as falsy as undefined
PropertyText(pathMap, part) ==
    IF MapHas(pathMap, part) THEN MapGet(pathMap, part)
    ELSE IF InheritsFromObjectPrototype(part) THEN ObjectFunctionText
    ELSE <<>>

Failure(error, part) == [ok |-> FALSE, error |-> error, part |-> part]

RECURSIVE MapParts(_, _, _, _)
MapParts(pathParts, i, pathMap, mappedParts) ==
    IF i > Len(pathParts) THEN [ok |-> TRUE, path |-> Join(mappedParts, "/")]
    ELSE IF pathParts[i] = SDOC_DIR_NAME
    THEN MapParts(pathParts, i + 1, pathMap, Append(mappedParts, pathParts[i]))
    ELSE IF PropertyText(pathMap, pathParts[i]) # <<>>
    THEN MapParts(pathParts, i + 1, pathMap,
                  Append(mappedParts, PropertyText(pathMap, pathParts[i])))
    ELSE Failure("no valid mapping", pathParts[i])

NoMapFile == [dir |-> <<>>, base |-> ""]

\* processPathWithMap(outputDir, mapFile); the failures are the null it returns,
\* told apart by the message it logs
processPathWithMap(outputDir, mapFile) ==
    LET absoluteOutputDir == PathString(outputDir)
        sdocIndex == IndexOf(absoluteOutputDir, SDOC_DIR_NAME)
        pathMapPath ==
            IF mapFile # NoMapFile THEN mapFile
            ELSE File(Substring(absoluteOutputDir, 0, sdocIndex + Len(SDOC_DIR_NAME)), PathMapJs)
        sdocPath == Substring(absoluteOutputDir, sdocIndex, Len(absoluteOutputDir))
    IN  IF sdocIndex = -1 THEN Failure("no sdoc in output directory", <<>>)
        ELSE IF pathMapPath \notin DOMAIN files THEN Failure("map file does not exist", <<>>)
        ELSE IF ~EndsWithJs(pathMapPath) THEN Failure("map file must be .js", <<>>)
        ELSE MapParts(Split(sdocPath, "/"), 1, RequireDefault(pathMapPath), <<>>)

\* The files a call looks for and loads: none before the anchor is found, then
\* pathMapPath (fs.existsSync, require)
OpenedFiles(outputDir, mapFile) ==
    LET absoluteOutputDir == PathString(outputDir)
        sdocIndex == IndexOf(absoluteOutputDir, SDOC_DIR_NAME)
    IN  IF sdocIndex = -1 THEN {}
        ELSE IF mapFile # NoMapFile THEN {mapFile}
        ELSE {File(Substring(absoluteOutputDir, 0, sdocIndex + Len(SDOC_DIR_NAME)), PathMapJs)}

-----------------------------------------------------------------------------
(* tdoc m:a: add frontmatter to an existing markdown file *)

Dashes == <<"-","-","-">>
LF == <<"\n">>
CRLF == <<"\r","\n">>

RECURSIVE Concat(_)
Concat(pieces) == IF pieces = <<>> THEN <<>> ELSE pieces[1] \o Concat(Tail(pieces))

\* hasFrontmatter: content.trimStart().startsWith('---')
hasFrontmatter(content) == StartsWith(TrimStart(content), Dashes)

\* A template is a text in which each placeholder, such as "{{ title }}", is one
\* element.

\* template.replace(/{{ hole }}/g, value), for a value without $ patterns
RECURSIVE ReplaceAll(_, _, _)
ReplaceAll(text, hole, value) ==
    IF text = <<>> THEN <<>>
    ELSE (IF text[1] = hole THEN value ELSE <<text[1]>>) \o ReplaceAll(Tail(text), hole, value)

\* formatDateTime: YYYY-MM-DD HH:MM:SS, the year unpadded
formatDateTime(date) ==
    NumberToString(date.year) \o <<"-">> \o Pad2(date.month) \o <<"-">> \o Pad2(date.day)
        \o <<" ">> \o Pad2(date.hours) \o <<":">> \o Pad2(date.minutes)
        \o <<":">> \o Pad2(date.seconds)

IsDecChar(c) == \E i \in 1..10 : DecChars[i] = c

RECURSIVE DropDigits(_)
DropDigits(s) == IF s # <<>> /\ IsDecChar(s[1]) THEN DropDigits(Tail(s)) ELSE s

\* dirName.replace(/^\d+-/, "")
StripNumberPrefix(dirName) ==
    LET rest == DropDigits(dirName)
    IN  IF Len(rest) < Len(dirName) /\ rest # <<>> /\ rest[1] = "-" THEN Tail(rest)
        ELSE dirName

\* getTitle(name, outputDir): the directory name for an index file, else the file name
getTitle(name, outputDir) ==
    IF outputDir # <<>> THEN StripNumberPrefix(Basename(outputDir)) ELSE name

getIndexDir(outputDir) == StripNumberPrefix(Basename(outputDir))

getIndexPath(outputDir) ==
    LET absolutePath == PathString(outputDir)
        sdocIndex == IndexOf(absolutePath, SDOC_DIR_NAME)
    IN  IF sdocIndex # -1 THEN Substring(absolutePath, sdocIndex, Len(absolutePath))
        ELSE StripNumberPrefix(Basename(outputDir))

generateContent(template, name, date, data, detailDate) ==
    LET t1 == ReplaceAll(template, "{{ title }}", getTitle(name, <<>>))
        t2 == ReplaceAll(t1, "{{ date }}", formatDateTime(date))
        t3 == ReplaceAll(t2, "{{ permalink }}", data.permalink)
        t4 == ReplaceAll(t3, "{{ detailDate }}", detailDate)
        t5 == ReplaceAll(t4, "{{ fulluuid }}", data.fulluuid)
    IN  ReplaceAll(t5, "{{ useduuid }}", data.useduuid)

generateIndexContent(template, outputDir, date, data, detailDate) ==
    LET t1 == ReplaceAll(template, "{{ title }}", getTitle(<<>>, outputDir))
        t2 == ReplaceAll(t1, "{{ date }}", formatDateTime(date))
        t3 == ReplaceAll(t2, "{{ permalink }}", data.permalink)
        t4 == ReplaceAll(t3, "{{ path }}", getIndexPath(outputDir))
        t5 == ReplaceAll(t4, "{{ dir }}", getIndexDir(outputDir))
        t6 == ReplaceAll(t5, "{{ detailDate }}", detailDate)
        t7 == ReplaceAll(t6, "{{ fulluuid }}", data.fulluuid)
    IN  ReplaceAll(t7, "{{ useduuid }}", data.useduuid)

ToLowerCase(s) ==
    LET upper == <<"A","B","C","D","E","F","G","H","I","J","K","L","M",
                   "N","O","P","Q","R","S","T","U","V","W","X","Y","Z">>
        lower == <<"a","b","c","d","e","f","g","h","i","j","k","l","m",
                   "n","o","p","q","r","s","t","u","v","w","x","y","z">>
    IN  [i \in 1..Len(s) |->
            IF \E k \in 1..26 : upper[k] = s[i]
            THEN lower[CHOOSE k \in 1..26 : upper[k] = s[i]]
            ELSE s[i]]

IndexName == <<"i","n","d","e","x">>
TemplateName(fileName) == IF ToLowerCase(fileName) = IndexName THEN "index" ELSE "post"

\* content.match(/^---\n([\s\S]*?)\n---/): the shortest group, or no match.
\* (A variable bound over a one-element set holds its value, evaluated once.)
FrontmatterMatch(content) ==
    LET Match(text) ==
            IF ~StartsWith(text, Dashes \o LF) THEN [found |-> FALSE]
            ELSE LET rest == SubSeq(text, Len(Dashes) + 2, Len(text))
                     ends == {k \in 0..Len(rest) :
                                 StartsWith(SubSeq(rest, k + 1, Len(rest)), LF \o Dashes)}
                 IN  IF ends = {} THEN [found |-> FALSE]
                     ELSE [found |-> TRUE,
                           group |-> SubSeq(rest, 1, CHOOSE k \in ends : \A j \in ends : k <= j)]
    IN  CHOOSE m \in {Match(text) : text \in {content}} : TRUE

\* generateFrontmatter(filePath) for the file outputDir/fileName.md
generateFrontmatter(templates, outputDir, fileName, currentTime, fulluuid) ==
    LET template == templates[TemplateName(fileName)]
        permalinkData == generatePermalink(currentTime, TRUE, fulluuid)
        detailDate == formatDateTime(currentTime) \o <<".">>
                          \o PadStart(NumberToString(currentTime.ms), 3, "0")
        content == IF ToLowerCase(fileName) = IndexName
                   THEN generateIndexContent(template, outputDir, currentTime, permalinkData,
                                             detailDate)
                   ELSE generateContent(template, fileName, currentTime, permalinkData, detailDate)
        Block(frontmatterMatch) ==
            IF frontmatterMatch.found /\ frontmatterMatch.group # <<>>
            THEN Dashes \o LF \o frontmatterMatch.group \o LF \o Dashes
            ELSE <<>>
    IN  CHOOSE block \in {Block(m) : m \in {FrontmatterMatch(content)}} : TRUE

\* newContent.replace(/\r\n/g, '\n')
RECURSIVE NormalizeEol(_)
NormalizeEol(text) ==
    IF text = <<>> THEN <<>>
    ELSE IF StartsWith(text, CRLF) THEN LF \o NormalizeEol(SubSeq(text, 3, Len(text)))
    ELSE <<text[1]>> \o NormalizeEol(Tail(text))

\* addFrontmatterToFile: the content the file has afterwards, and whether it was written
addFrontmatterToFile(content, frontmatter) ==
    IF hasFrontmatter(content) THEN [wrote |-> FALSE, content |-> content]
    ELSE [wrote |-> TRUE,
          content |-> NormalizeEol(frontmatter \o LF \o LF \o content \o LF)]

\* The scaffolds: with a frontmatter block, in a checkout with LF or with CRLF line
\* ends, and without one
Scaffolds(eol) ==
    [post |-> Concat(<<Dashes, eol, <<"t",":"," ", "{{ title }}">>, eol,
                       <<"d",":"," ", "{{ date }}">>, eol,
                       <<"p",":"," ", "{{ permalink }}">>, eol, Dashes, eol, eol,
                       <<"#"," ", "{{ title }}">>, eol>>),
     index |-> Concat(<<Dashes, eol, <<"t",":"," ", "{{ title }}">>, eol,
                        <<"p",":"," ", "{{ path }}">>, eol,
                        <<"p",":"," ", "{{ permalink }}">>, eol, Dashes, eol, eol,
                        <<"#"," ", "{{ dir }}">>, eol>>)]
BareScaffolds ==
    [post |-> <<"#"," ", "{{ title }}", "\n">>, index |-> <<"#"," ", "{{ dir }}", "\n">>]
ScaffoldSets == {Scaffolds(LF), Scaffolds(CRLF), BareScaffolds}

\* The markdown files m:a is tried on
MaDir == SdocDir \o <<Foo>>
MdNames == {Foo, IndexName, <<"I","n","d","e","x">>}

MaxPieces == 2
MdTexts ==
    LET pieces == {Dashes, LF, CRLF, <<" ">>, <<"a">>}
    IN  {Concat(ps) : ps \in UNION {[1..k -> pieces] : k \in 0..MaxPieces}}

MaxRuns == 2
MaTimePoints == DatesOf({2025}, Prefix(DayList, 2), Prefix(MillisList, 1))

-----------------------------------------------------------------------------
(* The state machines *)

NoParse == [kind |-> "none"]
NoCall == [ok |-> FALSE, error |-> "not called", part |-> <<>>]
NoFiles == [f \in {} |-> <<>>]
NoAliases == [n \in {} |-> <<>>]

FsInit ==
    /\ dirs = {ProjectDir, SdocDir}
    /\ mdFiles = {}
    /\ files = NoFiles
    /\ userAlias = NoAliases
    /\ mm = NoRun
    /\ resolved = NoCall

\* The same project with src as the document root
SrcFsInit ==
    /\ dirs = {ProjectDir, SrcDir}
    /\ mdFiles = {}
    /\ files = NoFiles
    /\ userAlias = NoAliases
    /\ mm = NoRun
    /\ resolved = NoCall

\* No m:m process under way
Procs == {1, 2}
IdleRun == [pc |-> "idle"]
RunIdle ==
    /\ runs = [p \in Procs |-> IdleRun]
    /\ unreadable = {}
    /\ fileLog = <<>>

\* No m:a file in play
MaIdle ==
    /\ scaffolds = Scaffolds(LF)
    /\ mdName = Foo
    /\ mdText = <<>>
    /\ maLog = <<>>

CodecInit ==
    /\ issued = <<>>
    /\ parsed = NoParse
    /\ FsInit
    /\ MaIdle
    /\ RunIdle

\* One call of generatePermalink(new Date()); the UUID is drawn inside the call.
GeneratePermalink(dates) ==
    \E date \in dates, usePrefix \in BOOLEAN, fulluuid \in Entropies :
        /\ issued' = Append(issued, [date |-> date, usePrefix |-> usePrefix,
                                     data |-> generatePermalink(date, usePrefix, fulluuid)])
        /\ UNCHANGED parsed
        /\ UNCHANGED fsVars
        /\ UNCHANGED maVars /\ UNCHANGED runVars

\* One call of parsePermalink
ParsePermalink ==
    /\ issued # <<>>
    /\ parsed = NoParse
    /\ \E input \in ParseInputs(issued[Len(issued)].data) :
           parsed' = [input |-> input, result |-> parsePermalink(input),
                      scriptResult |-> parsePermalinkScript(input)]
    /\ UNCHANGED issued
    /\ UNCHANGED fsVars
    /\ UNCHANGED maVars /\ UNCHANGED runVars

IssueOne == issued = <<>> /\ GeneratePermalink(TimePoints)

CodecNext == IssueOne \/ ParsePermalink

CodecSpec == CodecInit /\ [][CodecNext]_vars

IssueTwo == Len(issued) < 2 /\ GeneratePermalink(PairTimePoints)

PairNext == IssueTwo

PairSpec == CodecInit /\ [][PairNext]_vars

(* The documentation tree: the user makes and removes directories and documents,
   runs tdoc m:m, edits aliases in path-map.js by hand, and tdoc m:n -m resolves
   an output directory through processPathWithMap, the call a behaviour ends with *)

MdUniverse == {[dir |-> SdocDir, name |-> Foo]}
Bar == <<"b","a","r">>
EditAliases == {Bar, <<>>}
ExcludeOptions == {{}, {Baz}}
\* Output directories need not exist; mysdoc has sdoc inside its name
Mysdoc == <<"m","y","s","d","o","c">>
Sdocs == <<"s","d","o","c","s">>
LookalikeDirs == {<<W, Mysdoc, Foo>>, <<W, Mysdoc, SDOC_DIR_NAME, Foo>>,
                  <<W, Sdocs, SDOC_DIR_NAME, Foo>>}
ResolveDirs == {ProjectDir, SdocDir, SdocDir \o <<Ctor>>} \cup DirUniverse \cup LookalikeDirs
                   \cup {SrcDir} \cup SrcDirUniverse
\* -m without a file, -m with the map of the sdoc root, -m with a file nobody wrote
ResolveMapFiles == {NoMapFile, File(PathString(SdocDir), PathMapJs),
                    File(PathString(ProjectDir), "alias.js")}
\* The calls: every output directory with the default map, some with a map file
ResolveCalls ==
    (ResolveDirs \X {NoMapFile})
        \cup (({ProjectDir, SdocDir \o <<Foo>>} \cup LookalikeDirs) \X ResolveMapFiles)

\* The aliases the user wrote by hand into a map file and that every run since has kept a name for
AliasesIn(f) == IF f \in DOMAIN userAlias THEN userAlias[f] ELSE NoAliases

MkDir ==
    \E d \in (DirUniverse \cup SrcDirUniverse) \ dirs :
        /\ resolved = NoCall
        /\ Parent(d) \in dirs
        /\ dirs' = dirs \cup {d}
        /\ mm' = NoRun /\ resolved' = NoCall
        /\ UNCHANGED <<mdFiles, files, userAlias, issued, parsed>>
        /\ UNCHANGED maVars /\ UNCHANGED runVars

RmDir ==
    \E d \in dirs \cap (DirUniverse \cup SrcDirUniverse) :
        /\ resolved = NoCall
        /\ \A c \in dirs : ~(IsPrefixOf(d, c) /\ c # d)
        /\ dirs' = dirs \ {d}
        /\ mm' = NoRun /\ resolved' = NoCall
        /\ UNCHANGED <<mdFiles, files, userAlias, issued, parsed>>
        /\ UNCHANGED maVars /\ UNCHANGED runVars

\* The user writes the document dir/name.md
WriteMd ==
    \E md \in MdUniverse \ mdFiles :
        /\ resolved = NoCall
        /\ mdFiles' = mdFiles \cup {md}
        /\ mm' = NoRun /\ resolved' = NoCall
        /\ UNCHANGED <<dirs, files, userAlias, issued, parsed>>
        /\ UNCHANGED maVars /\ UNCHANGED runVars

\* The user replaces the alias of one entry of a map file
HandEdit ==
    \E f \in DOMAIN files, alias \in EditAliases :
        \E k \in {i \in 1..Len(files[f]) : i % 4 = 0} :
            /\ resolved = NoCall
            /\ files[f][k] # alias
            /\ files' = [files EXCEPT ![f][k] = alias]
            /\ userAlias' = [g \in DOMAIN userAlias \cup {f} |->
                                IF g = f
                                THEN [n \in DOMAIN AliasesIn(f) \cup {files[f][k - 2]} |->
                                         IF n = files[f][k - 2] THEN alias ELSE AliasesIn(f)[n]]
                                ELSE userAlias[g]]
            /\ mm' = NoRun /\ resolved' = NoCall
            /\ UNCHANGED <<dirs, mdFiles, issued, parsed>>
            /\ UNCHANGED maVars /\ UNCHANGED runVars

\* tdoc m:m [-d dir] [-e exclude]
RunMM ==
    \E scanPath \in dirs, given \in BOOLEAN, exclude \in ExcludeOptions :
        /\ resolved = NoCall
        /\ main(scanPath, given, exclude)
        /\ userAlias' = IF mm'.exit = 0
                        THEN [g \in DOMAIN userAlias |->
                                 IF g = mm'.outputPath
                                 THEN [n \in DOMAIN userAlias[g] \cap MapKeys(mm'.dirMap) |->
                                          userAlias[g][n]]
                                 ELSE userAlias[g]]
                        ELSE userAlias
        /\ resolved' = NoCall
        /\ UNCHANGED <<dirs, mdFiles, issued, parsed>>
        /\ UNCHANGED maVars /\ UNCHANGED runVars

\* One call of processPathWithMap
Resolve ==
    \E outputDir \in ResolveDirs, mapFile \in ResolveMapFiles :
        /\ <<outputDir, mapFile>> \in ResolveCalls
        /\ resolved = NoCall
        /\ resolved' = [outputDir |-> outputDir, mapFile |-> mapFile,
                        result |-> processPathWithMap(outputDir, mapFile),
                        opened |-> OpenedFiles(outputDir, mapFile)]
        /\ mm' = NoRun
        /\ UNCHANGED <<dirs, mdFiles, files, userAlias, issued, parsed>>
        /\ UNCHANGED maVars /\ UNCHANGED runVars

DocsInit ==
    /\ issued = <<>>
    /\ parsed = NoParse
    /\ (FsInit \/ SrcFsInit)
    /\ MaIdle
    /\ RunIdle

DocsNext == MkDir \/ RmDir \/ WriteMd \/ HandEdit \/ RunMM \/ Resolve

DocsSpec == DocsInit /\ [][DocsNext]_vars

-----------------------------------------------------------------------------
(* tdoc m:a on one markdown file *)

MaInit ==
    /\ issued = <<>>
    /\ parsed = NoParse
    /\ FsInit
    /\ scaffolds \in ScaffoldSets
    /\ mdName \in MdNames
    /\ mdText \in MdTexts
    /\ maLog = <<>>
    /\ RunIdle

\* tdoc m:a <MaDir>/<mdName>.md; with -d the same is done for each .md file of
\* the directory
AddFrontmatter ==
    /\ Len(maLog) < MaxRuns
    /\ \E currentTime \in MaTimePoints, fulluuid \in Entropies :
        \E frontmatter \in {generateFrontmatter(scaffolds, MaDir, mdName, currentTime, fulluuid)} :
        \E outcome \in {addFrontmatterToFile(mdText, frontmatter)} :
            /\ mdText' = outcome.content
            /\ maLog' = Append(maLog, [before |-> mdText, frontmatter |-> frontmatter,
                                       wrote |-> outcome.wrote, after |-> outcome.content])
    /\ UNCHANGED <<scaffolds, mdName, issued, parsed>>
    /\ UNCHANGED fsVars
    /\ UNCHANGED runVars

MaNext == AddFrontmatter

MaSpec == MaInit /\ [][MaNext]_vars

-----------------------------------------------------------------------------
(* tdoc m:m as a process: main and generatePathMap run to the end without a lock,
   so between the scan, the read of path-map.js and its write another process or
   the user can act on the same file *)

MaxEdits == 1
UnreadableChoices == {{}} \cup {{d} : d \in DirUniverse}

\* The map file an earlier run left at the sdoc root; in fileLog the writer of
\* that content is -1, the user is 0, a process is its number
EarlierMapFile ==
    [f \in {File(PathString(SdocDir), PathMapJs)} |->
        MapFileContent(scanDirectories(SdocDir, SdocDir, PREDEFINED_EXCLUDE_DIRS), EmptyMap)]

ProcInit ==
    /\ issued = <<>>
    /\ parsed = NoParse
    /\ MaIdle
    /\ dirs = {ProjectDir, SdocDir} \cup DirUniverse
    /\ mdFiles \in {{}, MdUniverse}
    /\ files \in {NoFiles, EarlierMapFile}
    /\ userAlias = NoAliases
    /\ mm = NoRun
    /\ resolved = NoCall
    /\ runs = [p \in Procs |-> IdleRun]
    /\ unreadable \in UnreadableChoices
    /\ fileLog = [i \in 1..Cardinality(DOMAIN files) |->
                     [by |-> -1, file |-> File(PathString(SdocDir), PathMapJs),
                      content |-> files[File(PathString(SdocDir), PathMapJs)]]]

ProcUnchanged == UNCHANGED <<issued, parsed, dirs, mdFiles, userAlias, mm, resolved, unreadable>>
                     /\ UNCHANGED maVars

\* main up to the call of generatePathMap
MmStart(p) ==
    \E scanPath \in dirs, given \in BOOLEAN, exclude \in ExcludeOptions :
        /\ runs[p].pc = "idle"
        /\ runs' = [runs EXCEPT ![p] =
                       IF RootPath(scanPath, given) = <<>>
                       THEN [pc |-> "done", exit |-> 1, error |-> "no sdoc or src directory"]
                       ELSE [pc |-> "scan", rootPath |-> RootPath(scanPath, given),
                             excludeDirs |-> PREDEFINED_EXCLUDE_DIRS \cup exclude]]
        /\ UNCHANGED <<files, fileLog>>
        /\ ProcUnchanged

\* generatePathMap: const dirMap = scanDirectories(dirPath, dirPath, excludeDirs)
MmScan(p) ==
    /\ runs[p].pc = "scan"
    /\ \E outcome \in {ScanOutcome(runs[p].rootPath, runs[p].excludeDirs)} :
          runs' = [runs EXCEPT ![p] =
                      IF outcome.ok
                      THEN [pc |-> "read", rootPath |-> runs[p].rootPath,
                            excludeDirs |-> runs[p].excludeDirs, dirMap |-> outcome.dirMap,
                            outputPath |-> File(PathString(runs[p].rootPath), PathMapJs)]
                      ELSE [pc |-> "done", exit |-> 1, error |-> "readdirSync",
                            rootPath |-> runs[p].rootPath,
                            excludeDirs |-> runs[p].excludeDirs]]
    /\ UNCHANGED <<files, fileLog>>
    /\ ProcUnchanged

\* generatePathMap: const existingMap = readExistingMap(outputPath)
MmRead(p) ==
    /\ runs[p].pc = "read"
    /\ runs' = [runs EXCEPT ![p] =
                   [pc |-> "write", rootPath |-> runs[p].rootPath,
                    excludeDirs |-> runs[p].excludeDirs, dirMap |-> runs[p].dirMap,
                    outputPath |-> runs[p].outputPath,
                    existingMap |-> readExistingMap(runs[p].outputPath),
                    readAt |-> Len(fileLog)]]
    /\ UNCHANGED <<files, fileLog>>
    /\ ProcUnchanged

\* generatePathMap: fs.writeFileSync(outputPath, content); main: process.exit(0)
MmWrite(p) ==
    /\ runs[p].pc = "write"
    /\ \E content \in {WrittenContent(runs[p])} :
          /\ files' = [f \in DOMAIN files \cup {runs[p].outputPath} |->
                          IF f = runs[p].outputPath THEN content ELSE files[f]]
          /\ fileLog' = Append(fileLog, [by |-> p, file |-> runs[p].outputPath,
                                         content |-> content])
    /\ runs' = [runs EXCEPT ![p] =
                   [pc |-> "done", exit |-> 0, rootPath |-> runs[p].rootPath,
                    excludeDirs |-> runs[p].excludeDirs, dirMap |-> runs[p].dirMap,
                    outputPath |-> runs[p].outputPath, existingMap |-> runs[p].existingMap,
                    readAt |-> runs[p].readAt]]
    /\ ProcUnchanged

\* The user replaces the alias of one entry of a map file while runs are under way
EditDuringRuns ==
    \E f \in DOMAIN files, alias \in EditAliases :
        \E k \in {i \in 1..Len(files[f]) : i % 4 = 0} :
            /\ Cardinality({i \in 1..Len(fileLog) : fileLog[i].by = 0}) < MaxEdits
            /\ files[f][k] # alias
            /\ files' = [files EXCEPT ![f][k] = alias]
            /\ fileLog' = Append(fileLog, [by |-> 0, file |-> f, content |-> files'[f]])
            /\ UNCHANGED runs
            /\ ProcUnchanged

ProcNext ==
    \/ \E p \in Procs : MmStart(p) \/ MmScan(p) \/ MmRead(p) \/ MmWrite(p)
    \/ EditDuringRuns

ProcSpec == ProcInit /\ [][ProcNext]_vars

-----------------------------------------------------------------------------
(* Claims about the codec *)

Call(i) == issued[i]

\* The identifier of a call's permalink: what follows the leading slash and,
\* when the prefix was asked for, "docs/"
PayloadOf(call) ==
    IF call.usePrefix
    THEN SubSeq(call.data.permalink, Len(PERMALINK_PREFIX) + 3, Len(call.data.permalink))
    ELSE Tail(call.data.permalink)

FourDigitYear(date) == date.year \in 1000..9999

SameFields(result, date) ==
    /\ result.year = date.year
    /\ result.month = date.month
    /\ result.day = date.day
    /\ result.hours = date.hours
    /\ result.minutes = date.minutes
    /\ result.seconds = date.seconds
    /\ result.milliseconds = date.ms

ParsedIssued == parsed # NoParse /\ parsed.input = Call(1).data.permalink

\* C1: parsePermalink of the permalink generatePermalink returned for a TimePoint
\* with a four-digit year gives back the year, month, day, hour, minute, second
\* and millisecond of that TimePoint, with the prefix and without.
C1_RoundTrip ==
    (ParsedIssued /\ FourDigitYear(Call(1).date))
        => (parsed.result.kind = "ok" /\ SameFields(parsed.result, Call(1).date))

\* An 11-digit hex timestamp, with the docs prefix, parsed back
C1_Witness ==
    /\ ParsedIssued
    /\ FourDigitYear(Call(1).date)
    /\ Len(TimestampHex(Call(1).date)) = 11
    /\ Call(1).usePrefix
    /\ Call(1).date.ms = 999
    /\ parsed.result.kind = "ok"


UsedPrefixLength(date) == 24 - Len(TimestampHex(date)) - 3

\* C3: two calls for the same TimePoint return the same identifier exactly when
\* their entropy strings agree on the used prefix, the first
\* 24 - len(timestampHex) - 3 characters.
C3_DeterminismModuloEntropy ==
    (Len(issued) = 2 /\ Call(1).date = Call(2).date)
        => LET n == UsedPrefixLength(Call(1).date)
           IN  (SubSeq(Call(1).data.fulluuid, 1, n) = SubSeq(Call(2).data.fulluuid, 1, n))
                   <=> (PayloadOf(Call(1)) = PayloadOf(Call(2)))

\* Two entropy strings that differ only beyond the used prefix, and one identifier
C3_Witness ==
    /\ Len(issued) = 2
    /\ Call(1).date = Call(2).date
    /\ Call(1).data.fulluuid # Call(2).data.fulluuid
    /\ PayloadOf(Call(1)) = PayloadOf(Call(2))

DateDigits(date) ==
    LET s == TimestampStr(date)
    IN  StripZeros([i \in 1..Len(s) |-> (CHOOSE d \in 1..10 : DecChars[d] = s[i]) - 1])

ClaimedPayload(input) ==
    LET a == IF input # <<>> /\ input[1] = "/" THEN Tail(input) ELSE input
    IN  IF Len(a) >= 5 /\ SubSeq(a, 1, 5) = <<"d","o","c","s","/">>
        THEN SubSeq(a, 6, Len(a)) ELSE a

C6_RequiresHex ==
    (/\ parsed # NoParse
     /\ Len(ClaimedPayload(parsed.input)) = 24
     /\ \E k \in 1..24 : ~IsHexChar(ClaimedPayload(parsed.input)[k]))
        => parsed.result.kind = "Error"

CharCode(c) == IF HexVal(c) < 10 THEN 48 + HexVal(c) ELSE 87 + HexVal(c)

RECURSIVE LexLess(_, _)
LexLess(a, b) ==
    IF b = <<>> THEN FALSE
    ELSE IF a = <<>> THEN TRUE
    ELSE IF a[1] # b[1] THEN CharCode(a[1]) < CharCode(b[1])
    ELSE LexLess(Tail(a), Tail(b))

FieldsOf(date) ==
    <<date.year, date.month, date.day, date.hours, date.minutes, date.seconds, date.ms>>

RECURSIVE TupleLess(_, _)
TupleLess(a, b) ==
    IF a = <<>> THEN FALSE
    ELSE IF a[1] # b[1] THEN a[1] < b[1]
    ELSE TupleLess(Tail(a), Tail(b))

Earlier(d1, d2) == TupleLess(FieldsOf(d1), FieldsOf(d2))

\* C10: of two TimePoints whose hex timestamps have the same length, the earlier
\* one has the lexicographically smaller identifier, whatever the entropy strings.
C10_Sortable ==
    \A i, j \in 1..Len(issued) :
        (/\ Earlier(Call(i).date, Call(j).date)
         /\ Len(TimestampHex(Call(i).date)) = Len(TimestampHex(Call(j).date)))
            => LexLess(PayloadOf(Call(i)), PayloadOf(Call(j)))

\* Two TimePoints of the same second, the earlier with the larger entropy string
C10_Witness ==
    /\ Len(issued) = 2
    /\ Earlier(Call(1).date, Call(2).date)
    /\ [Call(1).date EXCEPT !.ms = 0] = [Call(2).date EXCEPT !.ms = 0]
    /\ LexLess(Call(2).data.fulluuid, Call(1).data.fulluuid)
    /\ LexLess(PayloadOf(Call(1)), PayloadOf(Call(2)))

\* The four forms of an identifier: with or without the slash, with or without docs/
FormsOf(id) ==
    {id, <<"/">> \o id, PERMALINK_PREFIX \o <<"/">> \o id,
     <<"/">> \o PERMALINK_PREFIX \o <<"/">> \o id}

\* What a parse tells about the time: the fields, or the failure
TimePointOf(result) ==
    IF result.kind = "ok"
    THEN [kind |-> "ok", year |-> result.year, month |-> result.month, day |-> result.day,
          hours |-> result.hours, minutes |-> result.minutes, seconds |-> result.seconds,
          milliseconds |-> result.milliseconds]
    ELSE result

\* C13: generatePermalink returns /docs/ and the identifier when the prefix is
\* requested and / and the identifier otherwise; parsePermalink gives the
\* identifier in any of its four forms (with or without the slash, with or
\* without docs/) the TimePoint it gives the bare identifier.
C13_PrefixForm ==
    /\ \A i \in 1..Len(issued) :
          Call(i).data.permalink =
              (IF Call(i).usePrefix THEN <<"/">> \o PERMALINK_PREFIX \o <<"/">> ELSE <<"/">>)
                  \o IdOf(Call(i).data)
    /\ (parsed # NoParse /\ parsed.input \in FormsOf(IdOf(Call(1).data)))
          => TimePointOf(parsed.result) = TimePointOf(parsePermalink(IdOf(Call(1).data)))

\* The identifier with docs/ and without the slash, parsed to a TimePoint
C13_Witness ==
    /\ parsed # NoParse
    /\ parsed.input = PERMALINK_PREFIX \o <<"/">> \o IdOf(Call(1).data)
    /\ parsed.result.kind = "ok"
    /\ SameFields(parsed.result, Call(1).date)

\* C14: for an alias path followed by the raw permalink (/sdoc/default/docs/<id>)
\* parsePermalink returns the TimePoint of the trailing identifier, the one it
\* returns for the raw permalink alone.
C14_ParsesMappedPermalink ==
    (parsed # NoParse /\ parsed.input = AliasPathSample \o Call(1).data.permalink)
        => TimePointOf(parsed.result) = TimePointOf(parsePermalink(Call(1).data.permalink))

\* The 14 digits YYYYMMDDHHMMSS name a real calendar date and time of day
IsDateTime(stamp) ==
    LET year == ParseIntDec(Substring(stamp, 0, 4))
        month == ParseIntDec(Substring(stamp, 4, 6))
        day == ParseIntDec(Substring(stamp, 6, 8))
        hours == ParseIntDec(Substring(stamp, 8, 10))
        minutes == ParseIntDec(Substring(stamp, 10, 12))
        seconds == ParseIntDec(Substring(stamp, 12, 14))
    IN  /\ Len(stamp) = TimestampDecLength
        /\ month \in 1..12
        /\ day \in 1..DaysInMonth(year, month - 1)
        /\ hours \in 0..23
        /\ minutes \in 0..59
        /\ seconds \in 0..59

\* The decimal forms of the candidate timestamps of an identifier
CandidateStamps(hexStr) ==
    {ToChars(ConvertBase(BigIntOfHex(Substring(hexStr, 0, n)).digits, 16, 10), DecChars) :
        n \in {k \in MinTimestampLength..MaxTimestampLength :
                  BigIntOfHex(Substring(hexStr, 0, k)).ok}}

\* C20: parsePermalink accepts a candidate timestamp only if its 14 decimal digits
\* are a real calendar date and time (month 1-12, a day of that month, hour 0-23,
\* minute 0-59, second 0-59); and when no candidate of an identifier of the right
\* length is one, it fails with the error for an unparsable timestamp.
C20_ValidityCheck ==
    parsed # NoParse =>
        /\ parsed.result.kind = "ok" => IsDateTime(parsed.result.timestamp)
        /\ (/\ LengthOk(StripPermalink(parsed.input))
            /\ \A stamp \in CandidateStamps(StripPermalink(parsed.input)) : ~IsDateTime(stamp))
              => parsed.result = TimestampError

\* The candidate lengths at which the leading hex digits of an identifier read as
\* a decimal number of 14 digits
StampLengths(hexStr) ==
    {n \in MinTimestampLength..MaxTimestampLength :
        /\ BigIntOfHex(Substring(hexStr, 0, n)).ok
        /\ Len(ToChars(ConvertBase(BigIntOfHex(Substring(hexStr, 0, n)).digits, 16, 10),
                       DecChars)) = TimestampDecLength}

IsHexString(hexStr) == \A k \in 1..Len(hexStr) : IsHexChar(hexStr[k])

\* C27: of the leading 12, 11, 10, 9 and 8 hex digits of an identifier of 24 hex
\* digits at most one reads as a decimal number of 14 digits, and those of 10, 9
\* and 8 digits never do; and parsePermalink reads the permalink generatePermalink
\* returned at the length of the timestamp generatePermalink put in, so that the
\* timestamp it returns is the one that was encoded.
C27_DecodeUnambiguous ==
    parsed # NoParse =>
        /\ (LengthOk(StripPermalink(parsed.input)) /\ IsHexString(StripPermalink(parsed.input)))
               => /\ Cardinality(StampLengths(StripPermalink(parsed.input))) <= 1
                  /\ StampLengths(StripPermalink(parsed.input)) \subseteq {11, 12}
        /\ ParsedIssued
               => /\ parsed.result.kind = "ok"
                  /\ parsed.result.timestamp = TimestampStr(Call(1).date)

\* What a result of parsePermalink says of itself: its fields are the digit groups
\* of its timestamp, its milliseconds the value of the three hex digits after the
\* timestamp, below 1000
Consistent(result, hexStr) ==
    LET millisHex == Substring(hexStr, result.timestampLength, result.timestampLength + 3)
    IN  /\ result.year = ParseIntDec(Substring(result.timestamp, 0, 4))
        /\ result.month = ParseIntDec(Substring(result.timestamp, 4, 6))
        /\ result.day = ParseIntDec(Substring(result.timestamp, 6, 8))
        /\ result.hours = ParseIntDec(Substring(result.timestamp, 8, 10))
        /\ result.minutes = ParseIntDec(Substring(result.timestamp, 10, 12))
        /\ result.seconds = ParseIntDec(Substring(result.timestamp, 12, 14))
        /\ IsHexString(millisHex)
        /\ result.milliseconds = DigitsValue(HexDigits(millisHex), 16)
        /\ result.milliseconds \in 0..999

\* C30: whenever parsePermalink returns, in tdoc m:p and in the script, the year,
\* month, day, hours, minutes and seconds it returns are the digit groups of the
\* 14-digit timestamp it returns, and the milliseconds are the value of the three
\* hex characters after the timestamp hex, a number from 0 to 999.
C30_ResultConsistent ==
    parsed # NoParse =>
        /\ parsed.result.kind = "ok"
               => Consistent(parsed.result, StripPermalink(parsed.input))
        /\ parsed.scriptResult.kind = "ok"
               => Consistent(parsed.scriptResult, StripSlash(parsed.input))

-----------------------------------------------------------------------------
(* Claims about alias resolution and the map generator *)

Called == resolved # NoCall

\* The position of the anchor: the first segment named sdoc, 0 when there is none
AnchorIndex(outputDir) ==
    LET hits == {i \in 1..Len(outputDir) : outputDir[i] = SDOC_DIR_NAME}
    IN  IF hits = {} THEN 0 ELSE CHOOSE i \in hits : \A j \in hits : i <= j

\* The segments after the anchor
SegmentsBelow(outputDir) ==
    SubSeq(outputDir, AnchorIndex(outputDir) + 1, Len(outputDir))

\* The file the alias table of a call is in
TableFile(call) ==
    IF call.mapFile # NoMapFile THEN call.mapFile
    ELSE File(PathString(SubSeq(call.outputDir, 1, AnchorIndex(call.outputDir))), PathMapJs)

\* The call had an anchor and an alias table to work with
HasTable(call) ==
    /\ AnchorIndex(call.outputDir) > 0
    /\ TableFile(call) \in DOMAIN files

TableOf(call) == RequireDefault(TableFile(call))

Unmapped(call) ==
    {k \in 1..Len(SegmentsBelow(call.outputDir)) :
        ~MapHas(TableOf(call), SegmentsBelow(call.outputDir)[k])}

\* C7: alias resolution is all-or-nothing: when a segment of the path after the
\* anchor has no alias in the table, processPathWithMap returns the failure and
\* no path, whatever the segments before it; so every path it returns has an
\* alias from the table for each segment that is not the anchor.
C7_AllOrNothing ==
    (Called /\ HasTable(resolved)) =>
        /\ (Unmapped(resolved) # {}) => ~resolved.result.ok
        /\ resolved.result.ok => Unmapped(resolved) = {}

\* The path the translation is to give: the anchor, then the alias of every segment
AliasedPath(call) ==
    Join(<<SDOC_DIR_NAME>> \o
         [k \in 1..Len(SegmentsBelow(call.outputDir)) |->
             MapGet(TableOf(call), SegmentsBelow(call.outputDir)[k])], "/")

\* C8: on success processPathWithMap returns the segments from the anchor on, the
\* anchor unchanged and every other segment replaced by its alias from the table,
\* joined with "/": below sdoc, foo with the table {foo: bar} gives sdoc/bar, and
\* with an empty table the failure for the unmapped segment foo.
C8_TranslationResult ==
    (Called /\ HasTable(resolved)) =>
        /\ resolved.result.ok =>
              /\ Unmapped(resolved) = {}
              /\ resolved.result.path = AliasedPath(resolved)
        /\ (SegmentsBelow(resolved.outputDir) = <<Foo>> /\ TableOf(resolved) = EmptyMap)
              => resolved.result = Failure("no valid mapping", Foo)
        /\ (SegmentsBelow(resolved.outputDir) = <<Foo>> /\ TableOf(resolved) = <<<<Foo, Bar>>>>)
              => (resolved.result.ok /\ resolved.result.path = Join(<<SDOC_DIR_NAME, Bar>>, "/"))

Ran == mm # NoRun /\ mm.exit = 0

\* The alias the written map gives a name
WrittenAlias(name) == MapGet(RequireDefault(mm.outputPath), name)

\* C9: a run of tdoc m:m keeps the user's edits: every directory name the run
\* found carries, in the map it wrote, the alias the user last wrote for it by
\* hand, or "default" when the user never edited it.
C9_PreservesEdits ==
    Ran => \A name \in MapKeys(mm.dirMap) :
               WrittenAlias(name) = IF name \in DOMAIN AliasesIn(mm.outputPath)
                                    THEN AliasesIn(mm.outputPath)[name]
                                    ELSE DefaultAlias

NoAnchorFailure == Failure("no sdoc in output directory", <<>>)

\* The first segment of a path string
FirstSegment(path) == Split(path, "/")[1]

\* C11: processPathWithMap fails with the no-anchor failure exactly when the
\* output path has no segment named sdoc; when it has one, translation starts at
\* that segment: a returned path begins with the segment sdoc and has as many
\* segments as the output path has from the anchor on.
C11_AnchorDetection ==
    Called =>
        /\ (resolved.result = NoAnchorFailure) <=> (AnchorIndex(resolved.outputDir) = 0)
        /\ (AnchorIndex(resolved.outputDir) > 0 /\ resolved.result.ok) =>
              /\ FirstSegment(resolved.result.path) = SDOC_DIR_NAME
              /\ Len(Split(resolved.result.path, "/"))
                     = Len(SegmentsBelow(resolved.outputDir)) + 1

MapFileMissing == Failure("map file does not exist", <<>>)

\* C12: a call that found an anchor opens the explicit map file when one is
\* passed, else path-map.js directly inside the anchor directory, and no other
\* file; when that file does not exist the call fails with the map-file-missing
\* failure.
C12_TableSource ==
    (Called /\ AnchorIndex(resolved.outputDir) > 0) =>
        /\ resolved.opened = {TableFile(resolved)}
        /\ (TableFile(resolved) \notin DOMAIN files) => resolved.result = MapFileMissing

\* The map m:m wrote for a root, as the file has it now
MapOf(root) == RequireDefault(File(PathString(root), PathMapJs))

\* The user has replaced the alias of every name in the map of root
AllAliasesEdited(root) ==
    \A i \in 1..Len(MapOf(root)) :
        /\ MapOf(root)[i][1] \in DOMAIN AliasesIn(File(PathString(root), PathMapJs))
        /\ MapOf(root)[i][2] = AliasesIn(File(PathString(root), PathMapJs))[MapOf(root)[i][1]]
        /\ MapOf(root)[i][2] # <<>>

\* dir is a directory below root that the scan recorded, with all directories above it
ScannedBelow(root, dir) ==
    /\ dir \in dirs
    /\ IsPrefixOf(root, dir)
    /\ dir # root
    /\ \A k \in (Len(root) + 1)..Len(dir) : MapHas(MapOf(root), dir[k])

\* C15: after m:m has generated path-map.js for a root named sdoc or src and the
\* user has replaced every alias in it, resolution with the default map succeeds
\* for every scanned directory of that root.
C15_GenerateEditResolve ==
    \A root \in {SdocDir, SrcDir} :
        (/\ Called
         /\ resolved.mapFile = NoMapFile
         /\ File(PathString(root), PathMapJs) \in DOMAIN files
         /\ AllAliasesEdited(root)
         /\ ScannedBelow(root, resolved.outputDir))
            => resolved.result.ok

\* The directories of root a scan is to record: those below root that are
\* neither excluded nor the asset folder of a document, nor inside such a one
Scannable(root, excludeDirs) ==
    {d \in dirs :
        /\ IsPrefixOf(root, d)
        /\ d # root
        /\ \A k \in (Len(root) + 1)..Len(d) :
              /\ d[k] \notin excludeDirs
              /\ [dir |-> SubSeq(d, 1, k - 1), name |-> d[k]] \notin mdFiles}

\* C16: m:m given the sdoc root or a directory below it writes path-map.js
\* directly inside the sdoc root, and the map has the directories of the whole
\* root, not only those below the directory given.
C16_MapPlacement ==
    (mm # NoRun /\ IsPrefixOf(SdocDir, mm.scanPath)) =>
        /\ mm.exit = 0
        /\ mm.outputPath = File(PathString(SdocDir), PathMapJs)
        /\ \A d \in Scannable(SdocDir, mm.excludeDirs) : MapHas(mm.dirMap, Basename(d))

NoSdocSegment(dir) == AnchorIndex(dir) = 0

NotFound(run) == run.exit = 1 /\ run.error = "no sdoc or src directory"

AllDefault(call) ==
    /\ SegmentsBelow(call.outputDir) # <<>>
    /\ \A k \in 1..Len(SegmentsBelow(call.outputDir)) :
           /\ MapHas(TableOf(call), SegmentsBelow(call.outputDir)[k])
           /\ MapGet(TableOf(call), SegmentsBelow(call.outputDir)[k]) = DefaultAlias

DefaultPath(call) ==
    Join(<<SDOC_DIR_NAME>> \o [k \in 1..Len(SegmentsBelow(call.outputDir)) |-> DefaultAlias], "/")

\* C19: the generated value "default" resolves like an alias: for a directory whose
\* entry in path-map.js still has the value "default" the resolution succeeds and
\* gives the segment default for it (sdoc/foo gives sdoc/default), while a
\* directory with no entry at all makes the resolution fail.
C19_DefaultIsAnAlias ==
    (Called /\ HasTable(resolved)) =>
        /\ AllDefault(resolved) =>
              (resolved.result.ok /\ resolved.result.path = DefaultPath(resolved))
        /\ (Unmapped(resolved) # {}) => ~resolved.result.ok

\* The positions after the anchor whose segment has no alias in the table: no
\* entry, or an entry with the empty string
WithoutAlias(call) ==
    {k \in 1..Len(SegmentsBelow(call.outputDir)) :
        \/ ~MapHas(TableOf(call), SegmentsBelow(call.outputDir)[k])
        \/ MapGet(TableOf(call), SegmentsBelow(call.outputDir)[k]) = <<>>}

\* C21: processPathWithMap checks the anchor first, then the existence of the map
\* file, then the segments from left to right: a path without an anchor segment
\* gives the no-anchor failure whatever map file is passed, a path with an anchor
\* whose map file is missing gives the map-file-missing failure whatever its
\* segments are, and an unmapped-segment failure names the leftmost segment after
\* the anchor that has no alias.
C21_CheckOrder ==
    Called =>
        /\ (AnchorIndex(resolved.outputDir) = 0) => resolved.result = NoAnchorFailure
        /\ (AnchorIndex(resolved.outputDir) > 0 /\ TableFile(resolved) \notin DOMAIN files)
              => resolved.result = MapFileMissing
        /\ (HasTable(resolved) /\ ~resolved.result.ok
               /\ resolved.result.error = "no valid mapping")
              => /\ WithoutAlias(resolved) # {}
                 /\ resolved.result.part =
                        SegmentsBelow(resolved.outputDir)[
                            CHOOSE k \in WithoutAlias(resolved) :
                                \A j \in WithoutAlias(resolved) : k <= j]

\* The directory a recorded relative path stands for
RecordedDir(root, relativePath) == root \o Split(relativePath, "/")

\* C22: every relative path scanDirectories records is that of a directory below
\* the root, recorded under its own name, that neither is nor lies inside a
\* directory with a sibling document <name>.md or with an excluded name; every
\* other directory below the root has its name as a key; the root is not recorded.
C22_ScanExclusion ==
    Ran =>
        /\ \A i \in 1..Len(mm.dirMap) :
              /\ RecordedDir(mm.rootPath, mm.dirMap[i][2])
                     \in Scannable(mm.rootPath, mm.excludeDirs)
              /\ Basename(RecordedDir(mm.rootPath, mm.dirMap[i][2])) = mm.dirMap[i][1]
        /\ \A d \in Scannable(mm.rootPath, mm.excludeDirs) : MapHas(mm.dirMap, Basename(d))

\* A run recorded a directory and passed over another one below the same root
C22_Witness ==
    /\ Ran
    /\ mm.dirMap # EmptyMap
    /\ \E d \in dirs : /\ IsPrefixOf(mm.rootPath, d)
                       /\ d # mm.rootPath
                       /\ d \notin Scannable(mm.rootPath, mm.excludeDirs)

\* Depth-first order: a directory before its own subdirectories, the subtrees of
\* sibling directories in the order readdirSync lists the siblings
ListingPosition(name) == CHOOSE i \in 1..Len(ListingOrder) : ListingOrder[i] = name
VisitedBefore(d1, d2) ==
    /\ d1 # d2
    /\ \/ IsPrefixOf(d1, d2)
       \/ \E k \in 1..Len(d1) :
             /\ k <= Len(d2)
             /\ SubSeq(d1, 1, k - 1) = SubSeq(d2, 1, k - 1)
             /\ ListingPosition(d1[k]) < ListingPosition(d2[k])

SameName(name) == {d \in Scannable(mm.rootPath, mm.excludeDirs) : Basename(d) = name}

\* C23: when several scanned directories below the root have the same name, the
\* map and the written file hold exactly one entry for the name, and its path is
\* that of the directory of that name visited last in depth-first order.
C23_LastVisitedWins ==
    Ran =>
        \A name \in MapKeys(mm.dirMap) :
            /\ Cardinality({i \in 1..Len(mm.dirMap) : mm.dirMap[i][1] = name}) = 1
            /\ Cardinality({i \in 1..Len(RequireDefault(mm.outputPath)) :
                               RequireDefault(mm.outputPath)[i][1] = name}) = 1
            /\ \A d \in SameName(name) :
                  \/ d = RecordedDir(mm.rootPath, MapGet(mm.dirMap, name))
                  \/ VisitedBefore(d, RecordedDir(mm.rootPath, MapGet(mm.dirMap, name)))

\* A run scanned two directories of one name, the deeper one first
C23_Witness ==
    /\ Ran
    /\ \E name \in MapKeys(mm.dirMap) :
          \E d1, d2 \in SameName(name) : VisitedBefore(d1, d2) /\ Len(d1) > Len(d2)

\* C28: for every directory m:m succeeds on, the root it selects is the anchor
\* directory processPathWithMap finds for the same directory, and the path-map.js
\* it writes is the one file processPathWithMap looks for and loads when no map
\* file is passed.
C28_RootsAgree ==
    Ran => OpenedFiles(mm.scanPath, NoMapFile) = {File(PathString(mm.rootPath), PathMapJs)}
               /\ mm.outputPath = File(PathString(mm.rootPath), PathMapJs)

\* C29: after a run of m:m the names in path-map.js are exactly the names the
\* scan of that run found, those of the directories it was to record; an entry of
\* the file before for a name the scan did not find is not written back, and a
\* name the user has set no alias for since it was last dropped has "default".
C29_KeySet ==
    Ran =>
        /\ MapKeys(RequireDefault(mm.outputPath)) = MapKeys(mm.dirMap)
        /\ MapKeys(mm.dirMap) = {Basename(d) : d \in Scannable(mm.rootPath, mm.excludeDirs)}
        /\ \A name \in MapKeys(mm.existingMap) \ MapKeys(mm.dirMap) :
              ~MapHas(RequireDefault(mm.outputPath), name)
        /\ \A name \in MapKeys(mm.dirMap) \ DOMAIN AliasesIn(mm.outputPath) :
              WrittenAlias(name) = DefaultAlias

\* A run dropped an entry that had an alias of the user
C29_Witness ==
    /\ Ran
    /\ \E name \in MapKeys(mm.existingMap) \ MapKeys(mm.dirMap) :
          MapGet(mm.existingMap, name) = Bar
    /\ mm.dirMap # EmptyMap

-----------------------------------------------------------------------------
(* Claims about tdoc m:a *)

\* C18: m:a never adds frontmatter twice: a run on a file that already has
\* frontmatter leaves its content unchanged, and a second run in a row leaves
\* the content the first run left.
C18_AddsOnce ==
    /\ \A i \in 1..Len(maLog) : hasFrontmatter(maLog[i].before) => maLog[i].after = maLog[i].before
    /\ Len(maLog) >= 2 => maLog[2].after = maLog[1].after

-----------------------------------------------------------------------------
(* tdoc m:m among other writers of path-map.js *)

RunEntries(p) == {i \in 1..Len(fileLog) : fileLog[i].by = p}

\* What file f held after the first n writes: its pieces, <<>> when it did not exist
ContentAfter(f, n) ==
    LET hits == {i \in 1..n : fileLog[i].file = f}
    IN  IF hits = {} THEN <<>>
        ELSE fileLog[CHOOSE i \in hits : \A j \in hits : j <= i].content

\* The directories a scan from root has to read
ToRead(root, excludeDirs) == {root} \cup Scannable(root, excludeDirs)

\* C24: a map file holds what the last write to it left; a run of m:m writes at
\* most once, and only after a scan that read every directory below the root and
\* after its read of the existing map; a run whose scan meets a directory that
\* cannot be read ends with exit code 1 and has written nothing.
C24_NoPartialRewrite ==
    /\ \A f \in DOMAIN files : files[f] = ContentAfter(f, Len(fileLog))
    /\ \A i \in 1..Len(fileLog) : fileLog[i].file \in DOMAIN files
    /\ \A p \in Procs :
          /\ Cardinality(RunEntries(p)) <= 1
          /\ \A i \in RunEntries(p) :
                /\ runs[p].pc = "done" /\ runs[p].exit = 0
                /\ runs[p].readAt < i
                /\ MapKeys(runs[p].dirMap)
                       = {Basename(d) : d \in Scannable(runs[p].rootPath, runs[p].excludeDirs)}
          /\ (runs[p].pc \in {"read", "write"} \/ (runs[p].pc = "done" /\ runs[p].exit = 0))
                 => ToRead(runs[p].rootPath, runs[p].excludeDirs) \cap unreadable = {}
          /\ (runs[p].pc = "done" /\ runs[p].exit = 1) => RunEntries(p) = {}

\* A run failed on a directory it could not read, below a root that has a map file
C24_Witness ==
    \E p \in Procs :
        /\ runs[p].pc = "done" /\ runs[p].exit = 1 /\ runs[p].error = "readdirSync"
        /\ File(PathString(runs[p].rootPath), PathMapJs) \in DOMAIN files
        /\ Scannable(runs[p].rootPath, runs[p].excludeDirs) \ unreadable # {}

\* The map a read of the given content gives
MapRead(content) == IF content = <<>> THEN EmptyMap ELSE RegexEntries(content, 2, EmptyMap)

\* C25: what a run of m:m writes is its scan merged with the aliases the file
\* held when the run read it, whatever was written to the file between that read
\* and the write.
C25_StaleMerge ==
    \A p \in Procs :
        \A i \in RunEntries(p) :
            fileLog[i].content
                = MapFileContent(runs[p].dirMap,
                                 MapRead(ContentAfter(fileLog[i].file, runs[p].readAt)))

\* The user's alias, written between a run's read and its write, is gone after the write
C25_Witness ==
    \E p \in Procs :
        \E i \in RunEntries(p) :
            \E j \in (runs[p].readAt + 1)..(i - 1) :
                /\ fileLog[j].by = 0
                /\ fileLog[j].file = fileLog[i].file
                /\ \E name \in MapKeys(MapRead(fileLog[j].content)) :
                      /\ MapGet(MapRead(fileLog[j].content), name) = Bar
                      /\ MapHas(MapRead(fileLog[i].content), name)
                      /\ MapGet(MapRead(fileLog[i].content), name) # Bar
                      /\ files[fileLog[i].file] = fileLog[i].content
=============================================================================
